---- MODULE Spec2Model ----
(***************************************************************************)
(* The tool-call handler of the PostgreSQL MCP server (src/index.ts): the  *)
(* CallToolRequestSchema handler, the pg connection pool it leases         *)
(* connections from, and the PostgreSQL sessions behind those connections. *)
(*                                                                         *)
(* One handler invocation is a coroutine; it is cut at its await points:   *)
(*   pool.connect()  ->  BEGIN (query only)  ->  the statement  ->         *)
(*   ROLLBACK  ->  release and return.                                     *)
(* A statement is "in flight" between the step that sends it and the step  *)
(* in which the database executes it and the handler resumes.              *)
(***************************************************************************)
EXTENDS Integers, Sequences, FiniteSets, TLC

(* ------------------------------ bounds -------------------------------- *)
PoolSize == 1     \* connections the pool may have open (pg's "max")
MaxEntries == 2   \* entries of a `values` map given to the statement builders
MaxNameLen == 3   \* pieces a table name is put together from

\* Two handler invocations may be in progress at the same time; each slot
\* takes a new tool call once its previous one has returned or thrown.
Calls == {1, 2}
Conns == 1..PoolSize

(* --------------------------- JavaScript values ------------------------ *)
Undef    == [t |-> "undefined"]
Str(s)   == [t |-> "string", v |-> s]
Num(n)   == [t |-> "number", v |-> n]
JsTrue   == [t |-> "boolean", v |-> "true"]
\* An object is the sequence of its own enumerable entries, in iteration order.
Obj(es)  == [t |-> "object", entries |-> es]
NoArgs   == [t |-> "undefined"]   \* request.params.arguments omitted

\* Template-literal conversion `${x}`.
ToStr(x) ==
  CASE x.t = "undefined" -> "undefined"
    [] x.t = "string"    -> x.v
    [] x.t = "boolean"   -> x.v
    [] x.t = "number"    -> (CASE x.v = 0 -> "0" [] x.v = 1 -> "1" [] x.v = 30 -> "30"
                               [] x.v = 31 -> "31" [] OTHER -> "NaN")
    [] OTHER             -> "[object Object]"

\* Object.entries(x): throws a TypeError on undefined; a string's entries are
\* its characters under their indices; a number or boolean has none.
CanEnumerate(x) == x.t # "undefined"
Entries(x) ==
  CASE x.t = "object" -> x.entries
    [] x.t = "string" /\ "chars" \in DOMAIN x
                      -> [i \in 1..Len(x.chars) |-> <<ToStr(Num(i - 1)), Str(x.chars[i])>>]
    [] OTHER          -> <<>>
ObjectKeys(x)   == [i \in 1..Len(Entries(x)) |-> Entries(x)[i][1]]
ObjectValues(x) == [i \in 1..Len(Entries(x)) |-> Entries(x)[i][2]]
\* A string value given where an object is expected.
StrChars(cs) == [t |-> "string", v |-> "", chars |-> cs]

\* args.<key> : a TypeError when args is undefined, else the property or undefined.
HasArgs(args) == args.t = "object"
Prop(args, key) ==
  IF \E i \in 1..Len(args.entries) : args.entries[i][1] = key
    THEN LET i == CHOOSE j \in 1..Len(args.entries) : args.entries[j][1] = key
         IN args.entries[i][2]
    ELSE Undef

(* ------------------------------ statements ---------------------------- *)
\* What client.query is given: the SQL text and whether a parameter list is
\* passed (pg then uses the extended protocol: one statement only).
Quote(s)       == [quoted |-> s]          \* `"${s}"`
Placeholder(i) == [dollar |-> i]          \* `$${i}`

BeginStmt    == [kind |-> "BEGIN", text |-> "BEGIN TRANSACTION READ ONLY", params |-> <<>>]
RollbackStmt == [kind |-> "ROLLBACK", text |-> "ROLLBACK", params |-> <<>>]
NoStmt       == [kind |-> "none", text |-> "", params |-> <<>>]
QueryStmt(sql) == [kind |-> "SQL", text |-> sql.v, params |-> <<>>]

\* Variant: the placeholders are numbered from the last value back.
InsertStmtReversed(args) ==
  LET keys   == ObjectKeys(Prop(args, "values"))
      values == ObjectValues(Prop(args, "values"))
  IN [kind |-> "INSERT",
      text |-> [table        |-> Quote(ToStr(Prop(args, "table"))),
                columns      |-> [i \in 1..Len(keys) |-> Quote(keys[i])],
                placeholders |-> [i \in 1..Len(values) |-> Placeholder(Len(values) + 1 - i)]],
      params |-> values]

InsertStmt(args) ==
  LET keys   == ObjectKeys(Prop(args, "values"))
      values == ObjectValues(Prop(args, "values"))
  IN [kind |-> "INSERT",
      text |-> [table        |-> Quote(ToStr(Prop(args, "table"))),
                columns      |-> [i \in 1..Len(keys) |-> Quote(keys[i])],
                placeholders |-> [i \in 1..Len(values) |-> Placeholder(i)]],
      params |-> values]

\* Variant: the where text is passed as one more parameter.
UpdateStmtWhereBound(args) ==
  LET entries == Entries(Prop(args, "values"))
      values  == ObjectValues(Prop(args, "values"))
  IN [kind |-> "UPDATE",
      text |-> [table    |-> Quote(ToStr(Prop(args, "table"))),
                setParts |-> [i \in 1..Len(entries) |->
                                <<Quote(entries[i][1]), Placeholder(i)>>],
                where    |-> "$"],
      params |-> Append(values, Prop(args, "where"))]

UpdateStmt(args) ==
  LET entries == Entries(Prop(args, "values"))
      values  == ObjectValues(Prop(args, "values"))
  IN [kind |-> "UPDATE",
      text |-> [table    |-> Quote(ToStr(Prop(args, "table"))),
                setParts |-> [i \in 1..Len(entries) |->
                                <<Quote(entries[i][1]), Placeholder(i)>>],
                where    |-> ToStr(Prop(args, "where"))],
      params |-> values]

DeleteStmt(args) ==
  [kind |-> "DELETE",
   text |-> [table |-> Quote(ToStr(Prop(args, "table"))),
             where |-> ToStr(Prop(args, "where"))],
   params |-> <<>>]

\* The faults the three builders raise before anything is sent.
TypeErrorProp   == "Cannot read properties of undefined"
TypeErrorObject == "Cannot convert undefined or null to object"
BuildFault(name, args) ==
  CASE ~HasArgs(args)                                  -> TypeErrorProp
    [] name \in {"insert", "update"}
         /\ ~CanEnumerate(Prop(args, "values"))        -> TypeErrorObject
    [] OTHER                                           -> ""
Build(name, args) ==
  CASE name = "insert" -> InsertStmt(args)
    [] name = "update" -> UpdateStmt(args)
    [] name = "delete" -> DeleteStmt(args)

(* ------------------------------ the database -------------------------- *)
\* One table, "users"(id PRIMARY KEY, age). A session (one per connection) is
\* outside a transaction ("none": each statement auto-commits), inside the
\* read-only transaction ("ro"), or inside a failed one ("aborted").
Tables  == {"users"}
Columns == {"id", "age"}

\* The texts a caller may pass as `sql`, as the sequence of their statements:
\* "SELECT * FROM users", "DELETE FROM users", a syntax error, and
\* "COMMIT; DELETE FROM users".
SqlTexts == {<<"SELECT">>, <<"DML">>, <<"BAD">>, <<"COMMIT", "DML">>}

ReadOnlyError == "cannot execute DELETE in a read-only transaction"
AbortedError  == "current transaction is aborted"
SyntaxError   == "syntax error"
AnalysisError == "relation or column does not exist"
KeyError      == "duplicate key or null value violates constraint"
LostError     == "Connection terminated unexpectedly"

Result(err, rows, tx, table) == [err |-> err, rows |-> rows, tx |-> tx, table |-> table]
Failed(tx) == IF tx = "none" THEN "none" ELSE "aborted"

RECURSIVE RowSeq(_)
RowSeq(S) == IF S = {} THEN <<>>
             ELSE LET r == CHOOSE x \in S : \A y \in S : x.id <= y.id
                  IN <<r>> \o RowSeq(S \ {r})

\* The simple-query protocol: the statements of one message run one after the
\* other in the session; the first error ends the message.
RECURSIVE RunTokens(_, _, _)
RunTokens(toks, tx, table) ==
  IF toks = <<>> THEN Result("", RowSeq(table), tx, table)
  ELSE LET rest == Tail(toks) IN
    CASE tx = "aborted" /\ Head(toks) # "COMMIT" -> Result(AbortedError, <<>>, tx, table)
      [] Head(toks) = "COMMIT" -> RunTokens(rest, "none", table)
      [] Head(toks) = "SELECT" -> RunTokens(rest, tx, table)
      [] Head(toks) = "DML" ->
           IF tx = "ro" THEN Result(ReadOnlyError, <<>>, "aborted", table)
           ELSE RunTokens(rest, tx, {})
      [] OTHER -> Result(SyntaxError, <<>>, Failed(tx), table)

HasToken(toks, t) == \E i \in 1..Len(toks) : toks[i] = t

Matches(where, row) == where = "true" \/ (where = "id = 1" /\ row.id = 1)
\* A where text that ends the statement and goes on with BEGIN.
WhereThenBegin == "id = 1; BEGIN"
WhereOk(where) == where \in {"true", "id = 1"}

\* The value the statement binds to column `col`: the parameter its placeholder names.
Bound(cols, phs, params, col) ==
  LET i == CHOOSE j \in 1..Len(cols) : cols[j].quoted = col IN params[phs[i].dollar].v
ColNames(cols) == {cols[i].quoted : i \in 1..Len(cols)}

RunInsert(st, tx, table) ==
  LET cols == st.text.columns
      phs  == st.text.placeholders IN
  IF \/ st.text.table.quoted \notin Tables
     \/ cols = <<>> \/ ~(ColNames(cols) \subseteq Columns)
     \/ Len(phs) # Len(cols) \/ \E i \in 1..Len(phs) : phs[i].dollar > Len(st.params)
    THEN Result(AnalysisError, <<>>, Failed(tx), table)
  ELSE IF tx = "ro" THEN Result(ReadOnlyError, <<>>, "aborted", table)
  ELSE IF ColNames(cols) # Columns
          \/ \E r \in table : r.id = Bound(cols, phs, st.params, "id")
    THEN Result(KeyError, <<>>, Failed(tx), table)
  ELSE LET row == [id  |-> Bound(cols, phs, st.params, "id"),
                   age |-> Bound(cols, phs, st.params, "age")]
       IN Result("", <<row>>, tx, table \cup {row})

RunUpdate(st, tx, table) ==
  LET sets == st.text.setParts
      cols == [i \in 1..Len(sets) |-> sets[i][1]]
      phs  == [i \in 1..Len(sets) |-> sets[i][2]] IN
  IF \/ st.text.table.quoted \notin Tables
     \/ cols = <<>> \/ ~(ColNames(cols) \subseteq Columns)
     \/ ~WhereOk(st.text.where)
    THEN Result(AnalysisError, <<>>, Failed(tx), table)
  ELSE IF tx = "ro" THEN Result(ReadOnlyError, <<>>, "aborted", table)
  ELSE LET New(r) == [c \in Columns |->
                        IF c \in ColNames(cols) THEN Bound(cols, phs, st.params, c) ELSE r[c]]
           hit    == {r \in table : Matches(st.text.where, r)}
           new    == {New(r) : r \in hit}
       IN Result("", RowSeq(new), tx, (table \ hit) \cup new)

\* The delete has no parameters, so its text goes out as a simple query and
\* may hold several statements. A BEGIN after the DELETE takes the DELETE into
\* the transaction it opens ("rw"): nothing is committed, `table` (what other
\* sessions see) stays as it is, and the answer is one result per statement,
\* which has no `rows`.
RunDelete(st, tx, table) ==
  IF st.text.table.quoted \notin Tables
     \/ ~(WhereOk(st.text.where) \/ st.text.where = WhereThenBegin)
    THEN Result(AnalysisError, <<>>, Failed(tx), table)
  ELSE IF tx = "ro" THEN Result(ReadOnlyError, <<>>, "aborted", table)
  ELSE IF st.text.where = WhereThenBegin THEN Result("", <<>>, "rw", table)
  ELSE LET hit == {r \in table : Matches(st.text.where, r)}
       IN Result("", RowSeq(hit), tx, table \ hit)

\* information_schema.columns for the table "users".
TableColumns == << [column_name |-> "id",  data_type |-> "integer"],
                   [column_name |-> "age", data_type |-> "integer"] >>

\* What the session does with one client.query.
Execute(st, tx, table) ==
  CASE st.kind = "none"     -> Result("", <<>>, tx, table)
    [] st.kind = "ROLLBACK" -> Result("", <<>>, "none", table)
    [] st.kind = "BEGIN" ->
         IF tx = "aborted" THEN Result(AbortedError, <<>>, tx, table)
         ELSE Result("", <<>>, "ro", table)
    [] st.kind = "TABLES" -> Result("", <<>>, tx, table)
    [] st.kind = "COLUMNS" ->
         Result("", IF st.params[1].v = <<"users">> THEN TableColumns ELSE <<>>, tx, table)
    [] st.kind = "SQL" ->
         IF HasToken(st.text, "BAD") THEN Result(SyntaxError, <<>>, Failed(tx), table)
         ELSE RunTokens(st.text, tx, table)
    [] tx = "aborted"       -> Result(AbortedError, <<>>, tx, table)
    [] st.kind = "INSERT"   -> RunInsert(st, tx, table)
    [] st.kind = "UPDATE"   -> RunUpdate(st, tx, table)
    [] st.kind = "DELETE"   -> RunDelete(st, tx, table)

(* ------------------------------ requests ------------------------------ *)
Args(table, values, where) ==
  Obj(<< <<"table", table>>, <<"values", values>>, <<"where", where>> >>)
GoodInsertValues == Obj(<< <<"id", Num(1)>>, <<"age", Num(30)>> >>)
GoodUpdateValues == Obj(<< <<"age", Num(31)>> >>)

QueryRequests ==
  {[name |-> "query", args |-> a] :
     a \in {NoArgs} \cup {Obj(<< <<"sql", Str(s)>> >>) : s \in SqlTexts}}
InsertRequests ==
  {[name |-> "insert", args |-> a] :
     a \in {Args(Str("users"), v, Undef) :
              v \in {GoodInsertValues, Undef, StrChars(<<"a">>)}}}
UpdateRequests ==
  {[name |-> "update", args |-> a] :
     a \in {Args(Str("users"), GoodUpdateValues, w) : w \in {Str("id = 1"), JsTrue}}}
DeleteRequests ==
  {[name |-> "delete", args |-> a] :
     a \in {NoArgs, Args(Undef, Undef, Str("id = 1"))}
           \cup {Args(Str("users"), Undef, w) :
                   w \in {Str("id = 1"), Str(WhereThenBegin), Undef, JsTrue}}}
UnknownRequests == {[name |-> "unknown_op", args |-> Obj(<<>>)]}
Requests == QueryRequests \cup InsertRequests \cup UpdateRequests
              \cup DeleteRequests \cup UnknownRequests
NoRequest == [name |-> "", args |-> NoArgs]

(* ------------------------------ responses ----------------------------- *)
ErrorPayload(msg) ==
  [isError |-> TRUE, text |-> [prefix |-> "Error: ", message |-> msg, json |-> <<>>]]
SuccessPayload(rows) ==
  [isError |-> FALSE, text |-> [prefix |-> "", message |-> "", json |-> rows]]
NoPayload == [isError |-> FALSE, text |-> [prefix |-> "none", message |-> "", json |-> <<>>]]
\* error.message, as the sequence of the pieces it is put together from.
Msg(s) == <<s>>
UnknownTool(name) == <<"Unknown tool: ", name>>
NullQueryError == "Client was passed a null or undefined query"
NotQueryableError == "Client has encountered a connection error and is not queryable"

(* ------------------------------ state --------------------------------- *)
NoConn == 0

VARIABLES
  pc,        \* where each call's handler is suspended
  req,       \* request.params of each call
  client,    \* the handler's `client`: the connection pool.connect() gave it
  inflight,  \* the statement the handler is awaiting
  pending,   \* the completion of try/catch, held while `finally` runs
  resp,      \* what the handler returned to the protocol layer
  sent,      \* history: the statements the call has sent, with their connection
  released,  \* history: how often the call has called client.release()
  poolIdle,  \* the pool: connections not checked out
  users,     \* history: the calls that sent a statement on a connection since
             \* the pool last handed it out
  tx,        \* the database: each session's transaction mode
  alive,     \* each connection is still connected
  table      \* the database: the rows of "users"

vars == <<pc, req, client, inflight, pending, resp, sent, released,
          poolIdle, users, tx, alive, table>>

\* What the table may hold when the server starts.
StoredTables == {{}} \cup {{[id |-> 1, age |-> a]} : a \in {30, 31}}

Init ==
  /\ pc       = [c \in Calls |-> "idle"]
  /\ req      = [c \in Calls |-> NoRequest]
  /\ client   = [c \in Calls |-> NoConn]
  /\ inflight = [c \in Calls |-> NoStmt]
  /\ pending  = [c \in Calls |-> NoPayload]
  /\ resp     = [c \in Calls |-> NoPayload]
  /\ sent     = [c \in Calls |-> <<>>]
  /\ released = [c \in Calls |-> 0]
  /\ poolIdle = Conns
  /\ users    = [k \in Conns |-> {}]
  /\ tx       = [k \in Conns |-> "none"]
  /\ alive    = [k \in Conns |-> TRUE]
  /\ table    \in StoredTables

(* ------------------------------ the handler --------------------------- *)
Leased(c) == client[c] # NoConn /\ released[c] = 0
Acquired(c) == client[c] # NoConn

\* A new tool call arrives: the handler starts and calls pool.connect().
Request(c) ==
  /\ pc[c] \in {"idle", "done", "thrown"}
  /\ pc'       = [pc EXCEPT ![c] = "connect"]
  /\ req'      = [req EXCEPT ![c] = NoRequest]
  /\ client'   = [client EXCEPT ![c] = NoConn]
  /\ inflight' = [inflight EXCEPT ![c] = NoStmt]
  /\ pending'  = [pending EXCEPT ![c] = NoPayload]
  /\ resp'     = [resp EXCEPT ![c] = NoPayload]
  /\ sent'     = [sent EXCEPT ![c] = <<>>]
  /\ released' = [released EXCEPT ![c] = 0]
  /\ UNCHANGED <<poolIdle, users, tx, alive, table>>

\* pool.connect() resolves with an idle connection; a connection found dead
\* when it was released has been replaced by a fresh one.
ConnectOk(c) ==
  /\ pc[c] = "connect"
  /\ \E k \in poolIdle :
       /\ client'   = [client EXCEPT ![c] = k]
       /\ poolIdle' = poolIdle \ {k}
       /\ users'    = [users EXCEPT ![k] = {}]
       /\ alive'    = [alive EXCEPT ![k] = TRUE]
  /\ pc' = [pc EXCEPT ![c] = "leased"]
  /\ UNCHANGED <<req, inflight, pending, resp, sent, released, tx, table>>

\* Variant: pool.connect() inside the try, its rejection caught.
ConnectFailCaught(c) ==
  /\ pc[c] = "connect"
  /\ pc' = [pc EXCEPT ![c] = "done"]
  /\ resp' = [resp EXCEPT ![c] = ErrorPayload(Msg("timeout exceeded when trying to connect"))]
  /\ UNCHANGED <<req, client, inflight, pending, sent, released,
                 poolIdle, users, tx, alive, table>>

\* pool.connect() rejects because the connection it has to open cannot be
\* opened (with every connection leased the call is queued: the pool is given
\* no connectionTimeoutMillis); the await is outside the try, so the handler
\* rejects.
ConnectFail(c) ==
  /\ pc[c] = "connect"
  /\ poolIdle # {}
  /\ pc' = [pc EXCEPT ![c] = "thrown"]
  /\ UNCHANGED <<req, client, inflight, pending, resp, sent, released,
                 poolIdle, users, tx, alive, table>>

\* client.query(st): the statement goes out on the handler's `client`.
Send(c, st) ==
  /\ inflight' = [inflight EXCEPT ![c] = st]
  /\ sent'     = [sent EXCEPT ![c] = Append(@, [conn |-> client[c], kind |-> st.kind])]
  /\ users'    = [users EXCEPT ![client[c]] = @ \cup {c}]

\* Variant: finally only releases, no ROLLBACK is sent.
EnterFinallyNoRollback(c, completion) ==
  /\ pending'  = [pending EXCEPT ![c] = completion]
  /\ inflight' = [inflight EXCEPT ![c] = NoStmt]
  /\ pc' = [pc EXCEPT ![c] = "rollback"]
  /\ UNCHANGED <<client, resp, released, poolIdle, sent, users>>

\* Variant: finally releases the connection first and rolls back after.
EnterFinallyReleaseFirst(c, completion) ==
  /\ pending' = [pending EXCEPT ![c] = completion]
  /\ Send(c, RollbackStmt)
  /\ pc' = [pc EXCEPT ![c] = "rollback"]
  /\ poolIdle' = poolIdle \cup {client[c]}
  /\ released' = [released EXCEPT ![c] = @ + 1]
  /\ UNCHANGED <<client, resp>>

\* finally: the try/catch completion is held and ROLLBACK is sent.
EnterFinally(c, completion) ==
  /\ pending' = [pending EXCEPT ![c] = completion]
  /\ Send(c, RollbackStmt)
  /\ pc' = [pc EXCEPT ![c] = "rollback"]
  /\ UNCHANGED <<client, resp, released, poolIdle>>

\* Variant: the error payload is returned without a finally block running.
CatchWithoutFinally(c, msg) ==
  /\ pending'  = [pending EXCEPT ![c] = ErrorPayload(msg)]
  /\ resp'     = [resp EXCEPT ![c] = ErrorPayload(msg)]
  /\ inflight' = [inflight EXCEPT ![c] = NoStmt]
  /\ pc'       = [pc EXCEPT ![c] = "done"]
  /\ UNCHANGED <<client, released, poolIdle, sent, users>>

\* Variant: the catch block answers isError: false.
CatchReportsSuccess(c, msg) ==
  /\ pending' = [pending EXCEPT ![c] =
                   [isError |-> FALSE, text |-> ErrorPayload(msg).text]]
  /\ Send(c, RollbackStmt)
  /\ pc' = [pc EXCEPT ![c] = "rollback"]
  /\ UNCHANGED <<client, resp, released, poolIdle>>

\* catch (error): the fault becomes an error payload.
Catch(c, msg) == EnterFinally(c, ErrorPayload(msg))

\* return { content: [...rows...], isError: false }
Return(c, rows) == EnterFinally(c, SuccessPayload(rows))

\* The statement goes out and the handler awaits it at `at`.
Await(c, st, at) ==
  /\ Send(c, st)
  /\ pc' = [pc EXCEPT ![c] = at]
  /\ UNCHANGED <<client, pending, resp, released, poolIdle>>

\* Variant: no default case, an unknown name is run as a delete.
DefaultFallsThrough(c, r) == Await(c, DeleteStmt(r.args), "stmt")

\* default: throw new Error(`Unknown tool: ${name}`)
Default(c, r) == Catch(c, UnknownTool(r.name))

\* case "insert" / "update" / "delete": build the statement, send it.
WriteCase(c, r) ==
  IF BuildFault(r.name, r.args) # ""
    THEN Catch(c, Msg(BuildFault(r.name, r.args)))
    ELSE Await(c, Build(r.name, r.args), "stmt")

\* case "query": BEGIN TRANSACTION READ ONLY first.
QueryCase(c, r) == Await(c, BeginStmt, "begin")

\* The handler resumes with its connection, reads request.params (r) and
\* enters the switch.
DispatchOf(c, requests) ==
  /\ pc[c] = "leased"
  /\ \E r \in requests :
       /\ req' = [req EXCEPT ![c] = r]
       /\ CASE r.name = "query" -> QueryCase(c, r)
            [] r.name \in {"insert", "update", "delete"} -> WriteCase(c, r)
            [] OTHER -> Default(c, r)
  /\ UNCHANGED <<tx, alive, table>>

Dispatch(c) == DispatchOf(c, Requests)

\* The database's answer to the statement in flight; `lost` is the
\* connection breaking before the statement runs (the session ends, and an
\* open transaction with it).
Outcome(c, lost) ==
  LET k == client[c] IN
  IF ~alive[k] THEN Result(NotQueryableError, <<>>, tx[k], table)
  ELSE IF lost THEN Result(LostError, <<>>, "none", table)
  ELSE Execute(inflight[c], tx[k], table)

DbApply(c, lost) ==
  LET r == Outcome(c, lost) IN
  /\ tx'    = [tx EXCEPT ![client[c]] = r.tx]
  /\ table' = r.table
  /\ alive' = [alive EXCEPT ![client[c]] = @ /\ ~lost]

\* After BEGIN: client.query(args.sql), or the fault of BEGIN or of args.sql.
AfterBegin(c, r) ==
  IF r.err # "" THEN Catch(c, Msg(r.err))
  ELSE IF ~HasArgs(req[c].args) THEN Catch(c, Msg(TypeErrorProp))
  ELSE IF Prop(req[c].args, "sql") = Undef THEN Catch(c, Msg(NullQueryError))
  ELSE Await(c, QueryStmt(Prop(req[c].args, "sql")), "sql")

BeginDone(c) ==
  /\ pc[c] = "begin"
  /\ \E lost \in BOOLEAN :
       /\ DbApply(c, lost)
       /\ AfterBegin(c, Outcome(c, lost))
  /\ UNCHANGED req

\* After the statement: the rows as the payload, or the error.
AfterStatement(c, r) ==
  IF r.err # "" THEN Catch(c, Msg(r.err))
  ELSE IF req[c].name = "insert" THEN Return(c, SubSeq(r.rows, 1, 1))
  ELSE Return(c, r.rows)

SqlDone(c) ==
  /\ pc[c] = "sql"
  /\ \E lost \in BOOLEAN :
       /\ DbApply(c, lost)
       /\ AfterStatement(c, Outcome(c, lost))
  /\ UNCHANGED req

\* Variant: a timer may give up on the statement before the database answers.
StmtDoneOrTimeout(c) ==
  /\ pc[c] = "stmt"
  /\ \/ \E lost \in BOOLEAN :
          /\ DbApply(c, lost)
          /\ AfterStatement(c, Outcome(c, lost))
     \/ /\ Catch(c, Msg("Query read timeout"))
        /\ UNCHANGED <<tx, alive, table>>
  /\ UNCHANGED req

StmtDone(c) ==
  /\ pc[c] = "stmt"
  /\ \E lost \in BOOLEAN :
       /\ DbApply(c, lost)
       /\ AfterStatement(c, Outcome(c, lost))
  /\ UNCHANGED req

\* Variant: the error of a failed ROLLBACK is not dropped and leaves finally.
LeaveFinallyUnsuppressed(c, ok) ==
  IF ok
    THEN /\ poolIdle' = poolIdle \cup {client[c]}
         /\ released' = [released EXCEPT ![c] = @ + 1]
         /\ resp'     = [resp EXCEPT ![c] = pending[c]]
         /\ inflight' = [inflight EXCEPT ![c] = NoStmt]
         /\ pc'       = [pc EXCEPT ![c] = "done"]
         /\ UNCHANGED <<req, client, pending, sent, users>>
    ELSE /\ inflight' = [inflight EXCEPT ![c] = NoStmt]
         /\ pc'       = [pc EXCEPT ![c] = "thrown"]
         /\ UNCHANGED <<req, client, pending, sent, users, poolIdle, released, resp>>

\* Variant: the handler returns without client.release().
LeaveFinallyNoRelease(c, ok) ==
  /\ resp'     = [resp EXCEPT ![c] = pending[c]]
  /\ inflight' = [inflight EXCEPT ![c] = NoStmt]
  /\ pc'       = [pc EXCEPT ![c] = "done"]
  /\ UNCHANGED <<req, client, pending, sent, users, poolIdle, released>>

\* After ROLLBACK: .catch(() => { }) drops its error, client.release() gives
\* the connection back, and the held completion is returned.
LeaveFinally(c, ok) ==
  /\ poolIdle' = poolIdle \cup {client[c]}
  /\ released' = [released EXCEPT ![c] = @ + 1]
  /\ resp'     = [resp EXCEPT ![c] = pending[c]]
  /\ inflight' = [inflight EXCEPT ![c] = NoStmt]
  /\ pc'       = [pc EXCEPT ![c] = "done"]
  /\ UNCHANGED <<req, client, pending, sent, users>>

RollbackDone(c) ==
  /\ pc[c] = "rollback"
  /\ \E lost \in BOOLEAN :
       /\ DbApply(c, lost)
       /\ LeaveFinally(c, Outcome(c, lost).err = "")

Next ==
  \E c \in Calls :
    \/ Request(c)
    \/ ConnectOk(c)
    \/ ConnectFail(c)
    \/ Dispatch(c)
    \/ BeginDone(c)
    \/ SqlDone(c)
    \/ StmtDone(c)
    \/ RollbackDone(c)

Spec == Init /\ [][Next]_vars

(* ------------------------------ properties ---------------------------- *)
Kinds(c)       == [i \in 1..Len(sent[c]) |-> sent[c][i].kind]
HasSent(c, k)  == \E i \in 1..Len(sent[c]) : sent[c][i].kind = k
CountSent(c, k) == Cardinality({i \in 1..Len(sent[c]) : sent[c][i].kind = k})
InProgress(c)  == pc[c] \in {"leased", "begin", "sql", "stmt", "rollback"}
WriteKinds     == {"INSERT", "UPDATE", "DELETE"}
\* The connection of call c broke during this step.
LostNow(c)     == alive[client[c]] /\ ~alive'[client[c]]

\* C1: a call that acquired a connection releases it exactly once on every
\* exit path: while the handler runs the connection is checked out and not
\* yet released, once it has returned the connection was released once, and
\* a connection is out of the pool exactly while some running call holds it.
C1_ReleasedExactlyOnce ==
  /\ \A c \in Calls :
       /\ released[c] <= 1
       /\ InProgress(c) => Acquired(c) /\ released[c] = 0 /\ client[c] \notin poolIdle
       /\ pc[c] = "done" => Acquired(c) /\ released[c] = 1
       /\ Acquired(c) => InProgress(c) \/ pc[c] = "done"
  /\ poolIdle = Conns \ {client[c] : c \in {d \in Calls : InProgress(d)}}

\* The fault raised while building an insert from missing values, released once.
C1_Witness ==
  \E c \in Calls :
    /\ pc[c] = "done" /\ req[c].name = "insert"
    /\ resp[c] = ErrorPayload(Msg(TypeErrorObject))
    /\ released[c] = 1 /\ client[c] \in poolIdle

\* C2: every call that acquired a connection sends exactly one ROLLBACK on it,
\* as its last statement and before the release; a failed ROLLBACK does not
\* make the call throw, the connection is released all the same and the
\* response is the completion decided before the ROLLBACK.
C2_OneRollbackBeforeRelease ==
  \A c \in Calls :
    /\ pc[c] \in {"leased", "begin", "sql", "stmt"} => ~HasSent(c, "ROLLBACK")
    /\ pc[c] = "rollback" =>
         /\ CountSent(c, "ROLLBACK") = 1
         /\ sent[c][Len(sent[c])] = [conn |-> client[c], kind |-> "ROLLBACK"]
         /\ inflight[c] = RollbackStmt
         /\ released[c] = 0
         /\ pending[c] # NoPayload
    /\ pc[c] = "done" =>
         /\ CountSent(c, "ROLLBACK") = 1
         /\ sent[c][Len(sent[c])] = [conn |-> client[c], kind |-> "ROLLBACK"]
         /\ released[c] = 1
         /\ resp[c] = pending[c] /\ resp[c] # NoPayload
    /\ pc[c] = "thrown" => ~Acquired(c)

\* A statement succeeded, then the ROLLBACK failed on a broken connection: the
\* call still returned the success payload and released the connection.
C2_Witness ==
  \E c \in Calls :
    /\ pc[c] = "done" /\ ~resp[c].isError
    /\ ~alive[client[c]] /\ client[c] \in poolIdle
    /\ released[c] = 1

\* C3: a connection back in the pool has no open transaction, and a session
\* is inside a transaction only while the call holding it is a query call
\* that sent BEGIN itself.
C3_NoLingeringTransaction ==
  /\ \A k \in poolIdle : tx[k] = "none"
  /\ \A c \in Calls :
       (InProgress(c) /\ tx[client[c]] # "none") =>
          \/ req[c].name = "query" /\ HasSent(c, "BEGIN")
          \/ req[c].name = "delete" /\ HasSent(c, "DELETE")

\* A query ran inside its read-only transaction and its connection is back
\* in the pool, leased again by nobody.
C3_Witness ==
  \E c \in Calls :
    /\ pc[c] = "done" /\ req[c].name = "query"
    /\ Kinds(c) = <<"BEGIN", "SQL", "ROLLBACK">> /\ ~resp[c].isError
    /\ alive[client[c]] /\ client[c] \in poolIdle

\* Some statement of the text runs while the session is outside the read-only
\* transaction it was sent in.
RECURSIVE RunsOutside(_, _)
RunsOutside(toks, mode) ==
  IF toks = <<>> THEN FALSE
  ELSE CASE mode = "aborted"       -> FALSE
         [] Head(toks) = "COMMIT"  -> RunsOutside(Tail(toks), "none")
         [] mode # "ro"            -> TRUE
         [] Head(toks) = "SELECT"  -> RunsOutside(Tail(toks), mode)
         [] OTHER                  -> FALSE

\* C4: a query call sends BEGIN TRANSACTION READ ONLY first and the caller's
\* sql only after that BEGIN succeeded, on the same connection; a failed BEGIN
\* gives an error payload and no sql; and no statement of the caller's sql
\* runs outside the read-only transaction.
C4_SqlOnlyInsideReadOnly ==
  [][\A c \in Calls :
       /\ (pc[c] = "leased" /\ req'[c].name = "query") =>
             Kinds(c)' = <<"BEGIN">> /\ pc'[c] = "begin"
       /\ (pc[c] = "begin" /\ pc'[c] = "sql") =>
             /\ Outcome(c, LostNow(c)).err = ""
             /\ tx'[client[c]] = "ro"
             /\ Kinds(c)' = <<"BEGIN", "SQL">>
             /\ sent'[c][2].conn = sent'[c][1].conn
       /\ (pc[c] = "begin" /\ Outcome(c, LostNow(c)).err # "") =>
             /\ pc'[c] = "rollback" /\ pending'[c].isError
             /\ ~HasSent(c, "SQL")'
       /\ (pc[c] = "sql" /\ pc'[c] # "sql" /\ alive'[client[c]]) =>
             ~RunsOutside(inflight[c].text, tx[client[c]])
    ]_vars

\* The text of the sql a query call passed, <<>> when it passed none.
SqlOf(r) == IF HasArgs(r.args) /\ Prop(r.args, "sql") # Undef
              THEN Prop(r.args, "sql").v ELSE <<>>

\* C5: no step of a query call changes the table, and a query call whose sql
\* holds a data-modifying statement and was run by the database returns an
\* error payload.
C5_QueryNeverWrites ==
  [][\A c \in Calls :
       (req[c].name = "query" /\ pc[c] # pc'[c]) =>
          /\ table' = table
          /\ (pc[c] = "sql" /\ HasToken(SqlOf(req[c]), "DML")) => pending'[c].isError
    ]_vars

\* C6 as stated: an unknown tool name gives an error payload and no SQL at all
\* is sent for the call.
C6_UnknownSendsNothing ==
  \A c \in Calls :
    (pc[c] = "done" /\ req[c] \in UnknownRequests) =>
       resp[c].isError /\ sent[c] = <<>>

\* C6, amended: an unknown tool name gives the error payload "Error: Unknown
\* tool: <name>"; no BEGIN and no statement is sent for the call, the only SQL
\* sent is the trailing ROLLBACK, on a session that is in no transaction.
C6_UnknownSendsOnlyRollback ==
  \A c \in Calls :
    req[c] \in UnknownRequests =>
       /\ pc[c] \in {"rollback", "done"}
       /\ Kinds(c) = <<"ROLLBACK">>
       /\ pending[c] = ErrorPayload(UnknownTool(req[c].name))
       /\ pc[c] = "rollback" => tx[client[c]] = "none"
       /\ pc[c] = "done" => resp[c] = pending[c]

C6_Witness ==
  \E c \in Calls : pc[c] = "done" /\ req[c] \in UnknownRequests /\ resp[c].isError

\* A required argument of a write call is missing or of the wrong shape.
Malformed(r) ==
  \/ ~HasArgs(r.args)
  \/ Prop(r.args, "table").t # "string"
  \/ r.name \in {"insert", "update"} /\ Prop(r.args, "values").t # "object"
  \/ r.name \in {"update", "delete"} /\ Prop(r.args, "where").t # "string"

\* C7: a write call with a missing or malformed required argument returns an
\* error payload and sends no INSERT, UPDATE or DELETE.
C7_MalformedNeverSent ==
  \A c \in Calls :
    (req[c].name \in {"insert", "update", "delete"} /\ Malformed(req[c])) =>
       /\ \A i \in 1..Len(sent[c]) : sent[c][i].kind \notin WriteKinds
       /\ pc[c] = "done" => resp[c].isError

\* The faults the handler itself raises inside the try.
HandlerFaults(r) ==
  {UnknownTool(r.name), Msg(TypeErrorProp), Msg(TypeErrorObject), Msg(NullQueryError)}

\* What a call answers when it leaves the try in this step: the success
\* payload exactly when its statement was awaited and the database ran it
\* without error, else "Error: " and the message of the fault.
AnswersTheFault(c) ==
  LET r == Outcome(c, LostNow(c)) IN
  IF pc[c] \in {"sql", "stmt"} /\ r.err = ""
    THEN /\ ~pending'[c].isError
         /\ pending'[c].text.prefix = ""
         /\ pending'[c].text.json = (IF req[c].name = "insert" THEN SubSeq(r.rows, 1, 1) ELSE r.rows)
    ELSE /\ pending'[c].isError
         /\ pending'[c].text.prefix = "Error: "
         /\ pending'[c].text.message # <<>>
         /\ IF pc[c] = "leased" \/ r.err = ""
              THEN pending'[c].text.message \in HandlerFaults(req'[c])
              ELSE pending'[c].text.message = Msg(r.err)

\* C8: a call that acquired a connection never throws; every fault between
\* acquiring and releasing gives isError true and the text "Error: " followed
\* by the fault's message; isError is false only when the statement ran
\* without error; and what is returned is that payload.
C8_AlwaysWellFormedResponse ==
  /\ [](\A c \in Calls :
          /\ Acquired(c) => pc[c] # "thrown"
          /\ pc[c] = "done" => resp[c] = pending[c] /\ resp[c] # NoPayload)
  /\ [][\A c \in Calls :
          (pc[c] \in {"leased", "begin", "sql", "stmt"}
             /\ pc'[c] \notin {"begin", "sql", "stmt"} /\ pc'[c] # pc[c]) =>
                pc'[c] = "rollback" /\ AnswersTheFault(c)
       ]_vars

\* A database error from the statement came back as an error payload.
C8_Witness ==
  \E c \in Calls :
    /\ pc[c] = "done" /\ Kinds(c) = <<"INSERT", "ROLLBACK">>
    /\ resp[c] = ErrorPayload(Msg(KeyError))

\* C9: when pool.connect() fails the call throws instead of answering; such a
\* call has no connection, has sent nothing, has released nothing, and the
\* failing step leaves the pool, the leases and the database as they were.
C9_ConnectFailurePropagates ==
  /\ [](\A c \in Calls :
          pc[c] = "thrown" =>
            /\ client[c] = NoConn /\ sent[c] = <<>> /\ released[c] = 0
            /\ resp[c] = NoPayload /\ pending[c] = NoPayload /\ inflight[c] = NoStmt)
  /\ [][\A c \in Calls :
          (pc[c] = "connect" /\ pc'[c] # "connect" /\ client'[c] = NoConn) =>
             /\ pc'[c] = "thrown"
             /\ UNCHANGED <<poolIdle, client, sent, released, users, tx, alive, table>>
       ]_vars

\* A call failed to connect while the other call holds the connection.
C9_Witness ==
  \E c, d \in Calls :
    /\ pc[c] = "thrown" /\ client[c] = NoConn
    /\ InProgress(d) /\ Leased(d) /\ client[d] \notin poolIdle

\* C10: a statement is in flight only for a call that holds its lease, every
\* statement of a call went to the connection it leased, the calls that sent
\* on a checked-out connection are its one holder, two calls never hold the
\* same connection, and the leases never exceed the pool size.
C10_ExclusiveLease ==
  /\ \A c \in Calls :
       /\ inflight[c] # NoStmt => Leased(c) /\ client[c] \notin poolIdle
       /\ \A i \in 1..Len(sent[c]) : sent[c][i].conn = client[c]
  /\ \A k \in Conns :
       /\ Cardinality(users[k]) <= 1
       /\ k \notin poolIdle => users[k] \subseteq {c \in Calls : Leased(c) /\ client[c] = k}
  /\ \A c, d \in Calls : (c # d /\ Leased(c) /\ Leased(d)) => client[c] # client[d]
  /\ Cardinality({c \in Calls : Leased(c)}) <= PoolSize

\* One call has a statement in flight on the connection while another call
\* waits for the exhausted pool.
C10_Witness ==
  \E c, d \in Calls :
    /\ c # d /\ pc[c] = "connect" /\ poolIdle = {}
    /\ pc[d] = "stmt" /\ inflight[d].kind \in WriteKinds /\ users[client[d]] = {d}

(* ------------------- the statement builders on their own --------------- *)
\* One call at a time, insert and update calls with every `values` map of up
\* to MaxEntries entries over these keys and values.
BuilderKeys   == {"id", "age", "name"}
BuilderValues == {Num(1), Num(30), Num(31)}
RECURSIVE ValueMaps(_)
ValueMaps(n) ==
  IF n = 0 THEN {<<>>}
  ELSE LET shorter == ValueMaps(n - 1) IN
       shorter \cup
       {Append(m, <<k, v>>) : m \in {x \in shorter : Len(x) = n - 1},
                              k \in BuilderKeys, v \in BuilderValues}
DistinctKeys(m) == \A i, j \in 1..Len(m) : i # j => m[i][1] # m[j][1]
BuilderMaps == {m \in ValueMaps(MaxEntries) : DistinctKeys(m)}
BuilderRequests ==
  {[name |-> "insert", args |-> Args(Str("users"), Obj(m), Undef)] : m \in BuilderMaps}
  \cup {[name |-> "update", args |-> Args(Str("users"), Obj(m), Str(w))] :
          m \in BuilderMaps, w \in {"id = 1", "true"}}

BuilderDispatch(c) ==
  /\ pc[c] = "leased"
  /\ \E r \in BuilderRequests :
       /\ req' = [req EXCEPT ![c] = r]
       /\ WriteCase(c, r)
  /\ UNCHANGED <<tx, alive, table>>

\* The first call of a server: what the builders produce does not depend on
\* the calls before it.
FirstRequest(c) == pc[c] = "idle" /\ Request(c)

BuilderNext ==
  \/ FirstRequest(1)
  \/ ConnectOk(1)
  \/ BuilderDispatch(1)
  \/ StmtDone(1)
  \/ RollbackDone(1)

BuilderSpec == Init /\ [][BuilderNext]_vars

ValuesOf(r) == Prop(r.args, "values").entries
Succeeded(c) == pc[c] \in {"rollback", "done"} /\ ~pending[c].isError

\* C11: for a valid insert call the statement has as many columns,
\* placeholders and parameters as `values` has entries; the i-th column is the
\* i-th key quoted, the i-th placeholder is $i and the i-th parameter is the
\* value of that key, so the statement binds every key to its own value, and
\* the row the database stores has, under every key, that key's value.
C11_InsertBindsColumnsInOrder ==
  \A c \in Calls :
    req[c].name = "insert" =>
      LET es == ValuesOf(req[c])
          st == inflight[c] IN
      /\ pc[c] = "stmt" =>
           /\ st.kind = "INSERT"
           /\ Len(st.text.columns) = Len(es)
           /\ Len(st.text.placeholders) = Len(es)
           /\ Len(st.params) = Len(es)
           /\ \A i \in 1..Len(es) :
                /\ st.text.columns[i] = Quote(es[i][1])
                /\ st.text.placeholders[i] = Placeholder(i)
                /\ st.params[i] = es[i][2]
                /\ Bound(st.text.columns, st.text.placeholders, st.params, es[i][1])
                     = es[i][2].v
      /\ Succeeded(c) =>
           \E row \in table : \A i \in 1..Len(es) : row[es[i][1]] = es[i][2].v

\* An insert whose map lists age before id stored the row with both values
\* under their own columns.
C11_Witness ==
  \E c \in Calls :
    /\ pc[c] = "done" /\ req[c].name = "insert" /\ ~resp[c].isError
    /\ ValuesOf(req[c]) = << <<"age", Num(30)>>, <<"id", Num(1)>> >>
    /\ [id |-> 1, age |-> 30] \in table

\* C12: for a valid update call the SET clause has one assignment per entry
\* of `values`, in the map's order, the i-th being the i-th key quoted with
\* placeholder $i; the parameters are the values in that order and nothing
\* else; the where text is in the statement as given.
C12_UpdateSetInOrderWhereVerbatim ==
  \A c \in Calls :
    req[c].name = "update" =>
      LET es == ValuesOf(req[c])
          st == inflight[c] IN
      /\ pc[c] = "stmt" =>
           /\ st.kind = "UPDATE"
           /\ Len(st.text.setParts) = Len(es)
           /\ Len(st.params) = Len(es)
           /\ \A i \in 1..Len(es) :
                /\ st.text.setParts[i] = <<Quote(es[i][1]), Placeholder(i)>>
                /\ st.params[i] = es[i][2]
           /\ st.text.where = Prop(req[c].args, "where").v
      /\ Succeeded(c) =>
           \A row \in table :
             Matches(Prop(req[c].args, "where").v, row) =>
               \A i \in 1..Len(es) : row[es[i][1]] = es[i][2].v

\* An update of age where id = 1 changed the stored row.
C12_Witness ==
  \E c \in Calls :
    /\ pc[c] = "done" /\ req[c].name = "update" /\ ~resp[c].isError
    /\ ValuesOf(req[c]) = << <<"age", Num(31)>> >>
    /\ Prop(req[c].args, "where") = Str("id = 1")
    /\ resp[c].text.json = <<[id |-> 1, age |-> 31]>>
    /\ [id |-> 1, age |-> 31] \in table

WriteTools == {"insert", "update", "delete"}

Awaiting(c) == pc[c] \in {"begin", "sql", "stmt"}

\* C14: while a call's BEGIN or statement is in flight its connection is not
\* released and no ROLLBACK has been sent; the call moves on only in the step
\* in which the database answers that statement (a result, an error, or the
\* loss of the connection), and in every other step it stays where it is,
\* holding its lease: nothing times it out or cancels it.
C14_RunsToCompletionBeforeRelease ==
  /\ [](\A c \in Calls :
          Awaiting(c) =>
            /\ released[c] = 0 /\ ~HasSent(c, "ROLLBACK")
            /\ client[c] # NoConn /\ client[c] \notin poolIdle
            /\ inflight[c].kind = sent[c][Len(sent[c])].kind
            /\ sent[c][Len(sent[c])].conn = client[c]
            /\ \A d \in Calls \ {c} : InProgress(d) => client[d] # client[c])
  /\ [][\A c \in Calls :
          (Awaiting(c) /\ pc'[c] # pc[c]) =>
             \E lost \in BOOLEAN :
               LET r == Outcome(c, lost) IN
               /\ table' = r.table
               /\ tx'[client[c]] = r.tx
               /\ alive'[client[c]] = (alive[client[c]] /\ ~lost)
               /\ r.err # "" => /\ pc'[c] = "rollback"
                                /\ pending'[c] = ErrorPayload(Msg(r.err))
               /\ client'[c] = client[c] /\ released'[c] = 0
       ]_vars

\* A statement is in flight on the only connection while the other call
\* waits for one.
C14_Witness ==
  \E c, d \in Calls :
    /\ pc[c] = "sql" /\ inflight[c].kind = "SQL"
    /\ pc[d] = "connect" /\ poolIdle = {}

(* ------------------------------ progress ------------------------------ *)
\* Every statement sent is answered and a handler that can go on does (weak
\* fairness of each call's steps after it has its connection); the pool hands
\* a free connection to its waiters first come, first served, so a call that
\* can again and again be given one is given one (strong fairness of
\* ConnectOk). Nothing obliges a client to make a further request, nor
\* pool.connect() to fail.
\* One request for each way through the handler: a query that succeeds, a
\* query without arguments, an insert that succeeds or hits the key, an insert
\* that fails while its statement is built, an unknown tool.
LiveRequests ==
  {[name |-> "query", args |-> a] : a \in {NoArgs, Obj(<< <<"sql", Str(<<"SELECT">>)>> >>)}}
  \cup {[name |-> "insert", args |-> Args(Str("users"), v, Undef)] :
          v \in {GoodInsertValues, Undef}}
  \cup UnknownRequests

LiveDispatch(c) == DispatchOf(c, LiveRequests)

LiveNext ==
  \E c \in Calls :
    \/ Request(c)
    \/ ConnectOk(c)
    \/ ConnectFail(c)
    \/ LiveDispatch(c)
    \/ BeginDone(c)
    \/ SqlDone(c)
    \/ StmtDone(c)
    \/ RollbackDone(c)

Fairness ==
  \A c \in Calls :
    /\ SF_vars(ConnectOk(c))
    /\ WF_vars(LiveDispatch(c))
    /\ WF_vars(BeginDone(c))
    /\ WF_vars(SqlDone(c))
    /\ WF_vars(StmtDone(c))
    /\ WF_vars(RollbackDone(c))

LiveSpec == Init /\ [][LiveNext]_vars /\ Fairness

Waiting(c) == pc[c] = "connect" /\ poolIdle = {}
Quiescent  == \A c \in Calls : ~InProgress(c)

\* C15 as stated: every call that acquired a connection eventually releases
\* it, every call waiting on a full pool eventually acquires a connection,
\* and when no call is in flight every connection is in the pool.
C15_WaitingCallAcquires ==
  /\ \A c \in Calls : InProgress(c) ~> (pc[c] = "done" /\ released[c] = 1)
  /\ \A c \in Calls : Waiting(c) ~> InProgress(c)
  /\ [](Quiescent => poolIdle = Conns)

\* C15, amended: every call that acquired a connection eventually releases
\* it, every call waiting on a full pool eventually acquires a connection or
\* has its pool.connect() rejected (and then throws, as a call whose connect
\* fails does), and when no call is in flight every connection is in the pool.
C15_WaitingCallAcquiresOrIsRejected ==
  /\ \A c \in Calls : InProgress(c) ~> (pc[c] = "done" /\ released[c] = 1)
  /\ \A c \in Calls : Waiting(c) ~> (InProgress(c) \/ pc[c] = "thrown")
  /\ [](Quiescent => poolIdle = Conns)

\* A call holds the connection that another call used and released, while
\* that other call is finished.
C15_Witness ==
  \E c, d \in Calls :
    /\ c # d /\ pc[c] = "leased" /\ client[c] # NoConn
    /\ pc[d] = "done" /\ released[d] = 1 /\ client[d] = client[c]

(* --------------------------- resource URIs ---------------------------- *)
\* Text is a sequence of pieces; "/" and "?" are the characters the URL
\* parser gives a meaning to, the other pieces are runs of plain characters.
SCHEMA_PATH == <<"scema">>
Scheme      == "postgres://"
\* resourceBaseUrl: postgres://user@host:5432/mydb (password emptied).
BaseHost    == <<"user@host:5432">>
resourceBaseUrl == <<Scheme>> \o BaseHost \o <<"/", "mydb">>

\* String.prototype.split(sep)
RECURSIVE Split(_, _)
Split(text, sep) ==
  IF text = <<>> THEN << <<>> >>
  ELSE LET rest == Split(Tail(text), sep) IN
       IF Head(text) = sep THEN << <<>> >> \o rest
       ELSE << <<Head(text)>> \o rest[1] >> \o Tail(rest)

\* The text before the first "?" and the text from it on.
PathPart(text)  == Split(text, "?")[1]
QueryPart(text) == SubSeq(text, Len(PathPart(text)) + 1, Len(text))

\* The base URL without the last segment of its path, "/" kept.
BaseDir == <<Scheme>> \o BaseHost \o <<"/">>

\* new URL(name, resourceBaseUrl).href for a name of these pieces: a name
\* starting with "//" replaces the host, one starting with "/" the whole
\* path, any other the last segment of the base's path; a "?" starts the
\* query.
Href(name) ==
  LET p == PathPart(name)
      q == QueryPart(name) IN
  IF p = <<>> THEN resourceBaseUrl \o q
  ELSE IF Len(p) >= 2 /\ p[1] = "/" /\ p[2] = "/"
    THEN <<Scheme>> \o SubSeq(p, 3, Len(p)) \o q
  ELSE IF p[1] = "/" THEN <<Scheme>> \o BaseHost \o p \o q
  ELSE BaseDir \o p \o q

\* Variant: the listed URI ends with the schema path.
ListUriWithSchemaPath(name) == Href(name) \o <<"/">> \o SCHEMA_PATH

\* uri: new URL(`${row.table_name}`, resourceBaseUrl).href
ListUri(name) == Href(name)

\* new URL(uri) throws unless uri starts with a scheme.
ValidUrl(uri) == uri # <<>> /\ Head(uri) = Scheme

\* resourceUrl.pathname.split("/"): the host is not part of the pathname, and
\* an empty pathname splits into one empty string.
PathComponents(uri) ==
  LET parts == Split(PathPart(Tail(uri)), "/") IN
  << <<>> >> \o Tail(parts)

\* const schema = pathComponents.pop(); const tableName = pathComponents.pop()
Last(seq)  == seq[Len(seq)]
Front(seq) == SubSeq(seq, 1, Len(seq) - 1)
SchemaOf(uri) == Last(PathComponents(uri))
TableNameOf(uri) ==
  LET left == Front(PathComponents(uri)) IN
  IF left = <<>> THEN Undef ELSE Str(Last(left))

InvalidUrl         == "Invalid URL"
InvalidResourceUri == "Invalid resource URI"
\* What `new URL` and the schema check make of the uri: "" when it passes.
UriFault(uri) ==
  IF ~ValidUrl(uri) THEN InvalidUrl
  ELSE IF SchemaOf(uri) # SCHEMA_PATH THEN InvalidResourceUri
  ELSE ""

NamePieces == {"users", "scema", "/", "?"}
RECURSIVE Texts(_)
Texts(n) ==
  IF n = 0 THEN {<<>>}
  ELSE LET shorter == Texts(n - 1) IN
       shorter \cup {Append(t, x) : t \in {y \in shorter : Len(y) = n - 1}, x \in NamePieces}
\* The names a table of the public schema may have.
TableNames == Texts(MaxNameLen) \ {<<>>}

\* The uris a client reads: those it was listed, those with the schema path
\* added by hand, and a text that is no URL.
ReadUris ==
  {ListUri(n) : n \in TableNames}
  \cup {ListUri(n) \o <<"/">> \o SCHEMA_PATH : n \in {<<"users">>, <<"scema">>}}
  \cup {<<"users">>}

\* What information_schema.tables holds when it is read: no table, or one
\* of these.
ListedNames == {<<"users">>, <<"scema">>, <<"users", "/", "scema">>}
Listings == {<<>>} \cup {<<n>> : n \in ListedNames}

(* ------------------------- the resource handlers ---------------------- *)
TablesStmt ==
  [kind |-> "TABLES",
   text |-> "SELECT table_name FROM information_schema.tables WHERE table_schema = 'public'",
   params |-> <<>>]
ColumnsStmt(tableName) ==
  [kind |-> "COLUMNS",
   text |-> "SELECT column_name, data_type FROM information_schema.columns WHERE table_name = $1",
   params |-> <<tableName>>]

ListRequestOf == [name |-> "resources/list", args |-> NoArgs]
ReadRequestOf(uri) == [name |-> "resources/read", args |-> Obj(<< <<"uri", Str(uri)>> >>)]
UriOf(r) == Prop(r.args, "uri").v

\* The error a handler rejects with, as the completion it ends on.
Thrown(msg) ==
  [isError |-> TRUE, text |-> [prefix |-> "throw ", message |-> msg, json |-> <<>>]]
\* resources: one { uri, mimeType, name } per row.
ResourcesPayload(names) ==
  SuccessPayload([i \in 1..Len(names) |-> [uri |-> ListUri(names[i]), name |-> names[i]]])
\* contents: [{ uri, mimeType, text: JSON.stringify(result.rows) }]
ContentsPayload(uri, rows) ==
  SuccessPayload(<< [uri |-> uri, rows |-> rows] >>)

\* A handler starts on request r; `fault` is what it throws before it asks
\* the pool for a connection ("" when nothing).
Start(c, r, fault) ==
  /\ pc'       = [pc EXCEPT ![c] = IF fault = "" THEN "connect" ELSE "thrown"]
  /\ req'      = [req EXCEPT ![c] = r]
  /\ client'   = [client EXCEPT ![c] = NoConn]
  /\ inflight' = [inflight EXCEPT ![c] = NoStmt]
  /\ pending'  = [pending EXCEPT ![c] = IF fault = "" THEN NoPayload ELSE Thrown(Msg(fault))]
  /\ resp'     = [resp EXCEPT ![c] = NoPayload]
  /\ sent'     = [sent EXCEPT ![c] = <<>>]
  /\ released' = [released EXCEPT ![c] = 0]
  /\ UNCHANGED <<poolIdle, users, tx, alive, table>>

\* resources/list: straight to pool.connect().
ListResources(c) ==
  /\ pc[c] \in {"idle", "done", "thrown"}
  /\ Start(c, ListRequestOf, "")

\* resources/read: the uri is parsed and checked, then pool.connect().
ReadResource(c) ==
  /\ pc[c] \in {"idle", "done", "thrown"}
  /\ \E uri \in ReadUris : Start(c, ReadRequestOf(uri), UriFault(uri))

\* The first read of a server: what a read does with a uri does not depend on
\* the reads before it.
FirstRead(c) == pc[c] = "idle" /\ ReadResource(c)

\* With its connection the handler sends its one SELECT.
ResourceQuery(c) ==
  /\ pc[c] = "leased"
  /\ IF req[c].name = "resources/list"
       THEN Await(c, TablesStmt, "select")
       ELSE Await(c, ColumnsStmt(TableNameOf(UriOf(req[c]))), "select")
  /\ UNCHANGED <<req, tx, alive, table>>

\* Variant: client.release() after the return, no finally.
FinishWithoutFinally(c, err, payload) ==
  /\ inflight' = [inflight EXCEPT ![c] = NoStmt]
  /\ IF err # ""
       THEN /\ pc'      = [pc EXCEPT ![c] = "thrown"]
            /\ pending' = [pending EXCEPT ![c] = Thrown(Msg(err))]
            /\ UNCHANGED <<resp, poolIdle, released>>
       ELSE /\ poolIdle' = poolIdle \cup {client[c]}
            /\ released' = [released EXCEPT ![c] = @ + 1]
            /\ pc'      = [pc EXCEPT ![c] = "done"]
            /\ pending' = [pending EXCEPT ![c] = payload]
            /\ resp'    = [resp EXCEPT ![c] = payload]
  /\ UNCHANGED <<req, client, sent, users>>

\* try { return ... } finally { client.release() }: the connection goes back,
\* then the rows are returned or the query's error leaves the handler.
Finish(c, err, payload) ==
  /\ poolIdle' = poolIdle \cup {client[c]}
  /\ released' = [released EXCEPT ![c] = @ + 1]
  /\ inflight' = [inflight EXCEPT ![c] = NoStmt]
  /\ IF err # ""
       THEN /\ pc'      = [pc EXCEPT ![c] = "thrown"]
            /\ pending' = [pending EXCEPT ![c] = Thrown(Msg(err))]
            /\ UNCHANGED resp
       ELSE /\ pc'      = [pc EXCEPT ![c] = "done"]
            /\ pending' = [pending EXCEPT ![c] = payload]
            /\ resp'    = [resp EXCEPT ![c] = payload]
  /\ UNCHANGED <<req, client, sent, users>>

\* The database answers the SELECT; for the list it is the names of the
\* tables the public schema holds at that moment.
ResourceDone(c) ==
  /\ pc[c] = "select"
  /\ \E lost \in BOOLEAN :
       /\ DbApply(c, lost)
       /\ LET r == Outcome(c, lost) IN
          IF req[c].name = "resources/list"
            THEN \E names \in (IF r.err = "" THEN Listings ELSE {<<>>}) :
                   Finish(c, r.err, ResourcesPayload(names))
            ELSE Finish(c, r.err, ContentsPayload(UriOf(req[c]), r.rows))

\* One client lists, again and again, while another reads.
Lister == 1
Reader == 2
ResourceNext ==
  \/ ListResources(Lister)
  \/ FirstRead(Reader)
  \/ \E c \in Calls :
       \/ ConnectOk(c)
       \/ ConnectFail(c)
       \/ ResourceQuery(c)
       \/ ResourceDone(c)

ResourceSpec == Init /\ [][ResourceNext]_vars

Holding(c) == pc[c] \in {"leased", "select"}
Rejected(c) == pc[c] = "thrown" /\ pending[c] = Thrown(Msg(InvalidResourceUri))

\* C16: a resource handler releases the connection it acquired exactly once,
\* whether its query succeeded or threw, and never while it still uses it;
\* it sends its one SELECT and no BEGIN or ROLLBACK; the error of the query
\* leaves the handler as the error it throws; and a read rejected with
\* "Invalid resource URI" has acquired no connection and sent nothing.
C16_ResourceHandlersLeakFree ==
  /\ [](/\ poolIdle = Conns \ {client[c] : c \in {d \in Calls : Holding(d)}}
        /\ \A c \in Calls :
             /\ Holding(c) => client[c] # NoConn /\ released[c] = 0
             /\ pc[c] = "done" => client[c] # NoConn /\ released[c] = 1
             /\ pc[c] = "thrown" => released[c] = (IF client[c] # NoConn THEN 1 ELSE 0)
             /\ Kinds(c) \in {<<>>, <<"TABLES">>, <<"COLUMNS">>}
             /\ Rejected(c) => client[c] = NoConn /\ sent[c] = <<>> /\ released[c] = 0)
  /\ [][\A c \in Calls :
          (pc[c] = "select" /\ pc'[c] # "select") =>
             /\ released'[c] = 1 /\ client[c] \in poolIdle'
             /\ \E lost \in BOOLEAN :
                  LET r == Outcome(c, lost) IN
                  /\ alive'[client[c]] = (alive[client[c]] /\ ~lost)
                  /\ IF r.err # ""
                       THEN /\ pc'[c] = "thrown" /\ resp'[c] = NoPayload
                            /\ pending'[c] = Thrown(Msg(r.err))
                       ELSE pc'[c] = "done" /\ ~resp'[c].isError
       ]_vars

\* The list's query threw and its connection is back in the pool, and a read
\* was rejected for its uri with no connection taken.
C16_Witness ==
  /\ pc[Lister] = "thrown" /\ Kinds(Lister) = <<"TABLES">>
  /\ pending[Lister] = Thrown(Msg(LostError))
  /\ released[Lister] = 1 /\ client[Lister] \in poolIdle
  /\ Rejected(Reader) /\ client[Reader] = NoConn

Reading(c) == req[c].name = "resources/read" /\ ValidUrl(UriOf(req[c]))
\* A read goes on to the schema query only for a uri whose last path segment
\* is the schema path, and asks for the segment before it.
AcceptsOnlySchemaPath ==
  \A c \in Calls :
    Reading(c) =>
      LET comps == PathComponents(UriOf(req[c])) IN
      /\ Rejected(c) <=> comps[Len(comps)] # <<"scema">>
      /\ \A i \in 1..Len(sent[c]) : sent[c][i].kind = "COLUMNS"
      /\ pc[c] = "select" => inflight[c].params = << Str(comps[Len(comps) - 1]) >>
\* The uri listed for table `name` is rejected: no connection, no query.
ListedUriRejected(name) ==
  \A c \in Calls :
    (Reading(c) /\ UriOf(req[c]) = ListUri(name)) =>
       Rejected(c) /\ client[c] = NoConn /\ sent[c] = <<>>

\* C17 as stated: a read accepts a uri only when its last path segment is
\* 'scema' and takes the segment before it as the table name; for every table
\* not named 'scema' the listed uri is rejected with "Invalid resource URI"
\* and no schema query is executed.
C17_EveryListedUriRejected ==
  /\ AcceptsOnlySchemaPath
  /\ \A name \in TableNames \ {SCHEMA_PATH} : ListedUriRejected(name)

\* Names without "/" and "?": one run of plain characters.
PlainNames == {n \in TableNames : \A i \in 1..Len(n) : n[i] \notin {"/", "?"}}

\* C17, amended: a read accepts a uri only when its last path segment is
\* 'scema' and takes the segment before it as the table name; for every table
\* whose name is made of letters, digits and underscores only and is not
\* 'scema' the listed uri is rejected with "Invalid resource URI" and no
\* schema query is executed.
C17_ListedPlainNameRejected ==
  /\ AcceptsOnlySchemaPath
  /\ \A name \in PlainNames \ {SCHEMA_PATH} : ListedUriRejected(name)

\* The uri the list gave for the table users was read and rejected.
C17_Witness ==
  /\ pc[Lister] = "done" /\ resp[Lister] = ResourcesPayload(<< <<"users">> >>)
  /\ req[Reader] = ReadRequestOf(resp[Lister].text.json[1].uri)
  /\ Rejected(Reader) /\ sent[Reader] = <<>>
====
